---------------------------- MODULE Spec2Model ----------------------------
(***************************************************************************)
(* Rate-limited GraphQL gateway of tarkov-mcp                              *)
(* (src/tarkov_mcp/graphql_client.py): RateLimiter.acquire and             *)
(* TarkovGraphQLClient.__aenter__/__aexit__/execute_query, run by asyncio  *)
(* tasks on one event loop.                                                *)
(*                                                                         *)
(* asyncio is cooperative: a task runs without interruption up to its next *)
(* await that really suspends.  Each action below is one such run.  Time   *)
(* is the value of time.time(), in whole ticks, read once per acquire();   *)
(* it is taken to be non-decreasing.                                       *)
(***************************************************************************)
EXTENDS Integers, Sequences, FiniteSets, TLC

\* ---- bounds of the model ------------------------------------------------
NumTasks    == 2      \* asyncio tasks
NumGateways == 1      \* TarkovGraphQLClient objects
MaxTime     == 2      \* last clock tick explored
MaxN        == 2      \* largest max_requests explored
MaxW        == 2      \* largest time_window explored (ticks)
MaxIds      == 2      \* item ids passed to compare_items
MaxOpens    == 2      \* __aenter__ calls explored, over all gateways

Tasks    == 1..NumTasks
Gateways == 1..NumGateways

\* the client objects of PairSpec: those of Spec and one more, so that two
\* clients exist even where Spec explores a single one
AllGateways == 1..(NumGateways + 1)
NoTask   == 0
NoScope  == 0

\* response data execute_async can produce, and the ways it can fail
Responses == {"empty", "data"}
Errors    == {"transport", "protocol", "upstream"}

VARIABLES
    clock,         \* time.time()
    max_requests,  \* RateLimiter.max_requests (config.MAX_REQUESTS_PER_MINUTE)
    time_window,   \* RateLimiter.time_window
    requests,      \* requests[g]: RateLimiter.requests of g's limiter ("history")
    lock_owner,    \* lock_owner[g]: task holding RateLimiter._lock of g, or NoTask
    waiters,       \* waiters[g]: FIFO queue of tasks suspended on that lock
    client,        \* client[g]: g._client is not None
    session,       \* session[g]: g._session is not None
    pc,            \* pc[t]: where task t is suspended
    gw,            \* gw[t]: gateway of the execute_query call t is in
    scope,         \* scope[t]: gateway whose "async with" block t is in, or NoScope
    wake_at,       \* wake_at[t]: clock value at which t's asyncio.sleep ends
    outcome,       \* how the execute_query call that ended last ended, and in
                   \* which task
    opens,         \* opens[g]: number of _initialize calls on g
    closes,        \* closes[g]: number of _cleanup calls on g
    admitted,      \* admitted[g]: every timestamp ever appended to requests[g]
    acquired,      \* acquired[g]: number of acquire() calls on g that returned
    waiting        \* waiting[g]: the tasks suspended inside acquire() of g's
                   \* limiter, in the order in which they were first suspended

vars == <<clock, max_requests, time_window, requests, lock_owner, waiters,
          client, session, pc, gw, scope, wake_at, outcome, opens, closes,
          admitted, acquired, waiting>>

limiterVars == <<requests, lock_owner, waiters, admitted, acquired, waiting>>
gatewayVars == <<client, session, opens, closes>>
configVars  == <<max_requests, time_window>>

\* task: the caller; kind/val: what execute_query gave it; wire: what
\* execute_async produced, if it was called; left: the gateway whose
\* "async with" block the exception left, if it left one; diag: the fields
\* of the record execute_query logged with logger.error; reply: what the tool
\* handler whose block the exception left gave to its caller
NoReply == [raised |-> "none", texts |-> <<>>]

NoOutcome == [task |-> NoTask, kind |-> "none", val |-> "none",
              wire |-> "none", left |-> NoScope, diag |-> {}, reply |-> NoReply]

Range(s) == {s[i] : i \in DOMAIN s}

\* min(self.requests)
MinOf(s) == CHOOSE m \in Range(s) : \A x \in Range(s) : m <= x

\* variant of Keep: an entry whose age is exactly the window is kept
KeepInclusive(req_time, now, w) == now - req_time <= w

\* variant of Keep: the window is taken one tick too short
KeepShortWindow(req_time, now, w) == now - req_time < w - 1

\* [req_time for req_time in self.requests if now - req_time < self.time_window]
Keep(req_time, now, w) == now - req_time < w

\* variant of Prune: the filter condition is inverted
PruneKeepOld(reqs, now, w) ==
    SelectSeq(reqs, LAMBDA req_time : ~(now - req_time < w))

Prune(reqs, now, w) == SelectSeq(reqs, LAMBDA req_time : Keep(req_time, now, w))

Last(s) == s[Len(s)]

\* s without the task t
Without(s, t) == SelectSeq(s, LAMBDA u : u # t)

\* self.time_window - (now - oldest_request)
WaitTime(reqs, now, w) == w - (now - MinOf(reqs))

Init ==
    /\ clock = 0
    /\ max_requests \in 0..MaxN
    /\ time_window \in 1..MaxW
    /\ requests = [g \in AllGateways |-> <<>>]
    /\ lock_owner = [g \in AllGateways |-> NoTask]
    /\ waiters = [g \in AllGateways |-> <<>>]
    /\ client = [g \in AllGateways |-> FALSE]
    /\ session = [g \in AllGateways |-> FALSE]
    /\ pc = [t \in Tasks |-> "idle"]
    /\ gw = [t \in Tasks |-> NoScope]
    /\ scope = [t \in Tasks |-> NoScope]
    /\ wake_at = [t \in Tasks |-> 0]
    /\ outcome = NoOutcome
    /\ opens = [g \in AllGateways |-> 0]
    /\ closes = [g \in AllGateways |-> 0]
    /\ admitted = [g \in AllGateways |-> <<>>]
    /\ acquired = [g \in AllGateways |-> 0]
    /\ waiting = [g \in AllGateways |-> <<>>]

\* the clock advances
Tick ==
    /\ clock < MaxTime
    /\ clock' = clock + 1
    /\ UNCHANGED <<configVars, limiterVars, gatewayVars, pc, gw, scope,
                   wake_at, outcome>>

\* ---- TarkovGraphQLClient lifecycle ---------------------------------------

\* _initialize: self._client = Client(...).  self._session is not assigned.
initialize(g) ==
    /\ client' = [client EXCEPT ![g] = TRUE]
    /\ opens' = [opens EXCEPT ![g] = @ + 1]
    /\ UNCHANGED <<session, closes>>

\* _cleanup: "if self._session: await self._session.close()".  Neither
\* branch assigns self._session or self._client.
cleanup(g) ==
    /\ closes' = [closes EXCEPT ![g] = @ + 1]
    /\ UNCHANGED <<client, session, opens>>

\* variant of LeavesScope: a failure always ends the block
AlwaysLeavesScope(t, caught) == scope[t] # NoScope

\* An exception raised to the caller of execute_query in task t.  Inside an
\* "async with" block it is either handled inside the block (caught) or it
\* leaves the block, and then __aexit__ runs _cleanup.
LeavesScope(t, caught) == scope[t] # NoScope /\ ~caught

\* variant of Unwind: an exception leaves the block without _cleanup
UnwindWithoutCleanup(t, caught) ==
    /\ scope' = IF LeavesScope(t, caught)
                THEN [scope EXCEPT ![t] = NoScope] ELSE scope
    /\ UNCHANGED gatewayVars

Unwind(t, caught) ==
    IF LeavesScope(t, caught)
    THEN /\ scope' = [scope EXCEPT ![t] = NoScope]
         /\ cleanup(scope[t])
    ELSE UNCHANGED <<scope, gatewayVars>>

\* one TextContent(type="text", text=...)
Text(head, message) == [type |-> "text", head |-> head, message |-> message]

\* variant of HandlerResult: the handler lets the exception through
HandlerReraises(err) == [raised |-> err, texts |-> <<>>]

\* Every "async with TarkovGraphQLClient()" block of the repository is the
\* body of a tool handler's try statement, whose only clause is
\*     except Exception as e: ... return [TextContent(type="text",
\*                                        text=f"Error ...: {str(e)}")]
\* CancelledError is not an Exception and goes through.
HandlerResult(err) ==
    IF err = "CancelledError"
    THEN [raised |-> err, texts |-> <<>>]
    ELSE [raised |-> "none", texts |-> <<Text("Error", err)>>]

Raise(t, err, wire, diag, caught) ==
    /\ pc' = [pc EXCEPT ![t] = "idle"]
    /\ gw' = [gw EXCEPT ![t] = NoScope]
    /\ outcome' = [task |-> t, kind |-> "raised", val |-> err, wire |-> wire,
                   left |-> IF LeavesScope(t, caught) THEN scope[t] ELSE NoScope,
                   diag |-> diag,
                   reply |-> IF LeavesScope(t, caught)
                             THEN HandlerResult(err) ELSE NoReply]
    /\ Unwind(t, caught)

\* opens[1] + ... + opens[n]
RECURSIVE OpensUpTo(_)
OpensUpTo(n) == IF n = 0 THEN 0 ELSE opens[n] + OpensUpTo(n - 1)

\* "async with TarkovGraphQLClient() as client:" entered by task t
AEnter(t, g) ==
    /\ pc[t] = "idle"
    /\ scope[t] = NoScope
    /\ OpensUpTo(NumGateways + 1) < MaxOpens
    /\ initialize(g)
    /\ scope' = [scope EXCEPT ![t] = g]
    /\ UNCHANGED <<clock, configVars, limiterVars, pc, gw, wake_at, outcome>>

\* the block is left without an exception (end of block or early return)
AExit(t) ==
    /\ pc[t] = "idle"
    /\ scope[t] # NoScope
    /\ cleanup(scope[t])
    /\ scope' = [scope EXCEPT ![t] = NoScope]
    /\ UNCHANGED <<clock, configVars, limiterVars, pc, gw, wake_at, outcome>>

\* ---- tool handlers with argument validation -------------------------------

Names == {"none", "ak74"}        \* arguments.get("name")
ItemTypes == {"none", "gun"}     \* arguments.get("item_type")

\* not (not name and not item_type)
SearchArgsValid(name, item_type) == name # "none" \/ item_type # "none"

\* not (not item_ids or len(item_ids) < 2)
CompareArgsValid(n_ids) == n_ids >= 2

\* variant of Reject: the arguments are validated inside the client's block
RejectInsideBlock(t, tool) ==
    /\ outcome' = [task |-> t, kind |-> "rejected", val |-> tool,
                   wire |-> "none", left |-> NoScope, diag |-> {},
                   reply |-> [raised |-> "none",
                              texts |-> <<Text("Error", "arguments")>>]]
    /\ opens' = [opens EXCEPT ![1] = @ + 1]
    /\ closes' = [closes EXCEPT ![1] = @ + 1]
    /\ UNCHANGED <<clock, configVars, limiterVars, client, session, pc, gw,
                   scope, wake_at>>

\* the early return before the try statement: one error text, nothing else
Reject(t, tool) ==
    /\ outcome' = [task |-> t, kind |-> "rejected", val |-> tool,
                   wire |-> "none", left |-> NoScope, diag |-> {},
                   reply |-> [raised |-> "none",
                              texts |-> <<Text("Error", "arguments")>>]]
    /\ UNCHANGED <<clock, configVars, limiterVars, gatewayVars, pc, gw, scope,
                   wake_at>>

\* the handler goes on to "async with TarkovGraphQLClient() as client:",
\* with a client object constructed for this call
EnterFresh(t, g) == opens[g] = 0 /\ AEnter(t, g)

\* handle_search_items called by task t, up to the entry of its block
HandleSearchItems(t, g, name, item_type) ==
    /\ pc[t] = "idle"
    /\ scope[t] = NoScope
    /\ IF SearchArgsValid(name, item_type)
       THEN EnterFresh(t, g)
       ELSE Reject(t, "search_items")

\* handle_compare_items called by task t, up to the entry of its block
HandleCompareItems(t, g, n_ids) ==
    /\ pc[t] = "idle"
    /\ scope[t] = NoScope
    /\ IF CompareArgsValid(n_ids)
       THEN EnterFresh(t, g)
       ELSE Reject(t, "compare_items")

\* ---- RateLimiter.acquire --------------------------------------------------

\* variant of Record: the timestamp is put in front of the history
RecordFirst(kept, now) == <<now>> \o kept

\* self.requests.append(now)
Record(kept, now) == Append(kept, now)

\* self.requests.append(now); the lock is released; acquire() returns and
\* execute_query goes on to "await self._client.execute_async(...)".
Admit(t, g, kept, now) ==
    /\ requests' = [requests EXCEPT ![g] = Record(kept, now)]
    /\ admitted' = [admitted EXCEPT ![g] = Append(@, now)]
    /\ acquired' = [acquired EXCEPT ![g] = @ + 1]
    /\ pc' = [pc EXCEPT ![t] = "network"]
    /\ gw' = [gw EXCEPT ![t] = g]
    /\ waiting' = [waiting EXCEPT ![g] = Without(@, t)]
    /\ UNCHANGED <<lock_owner, wake_at, scope, gatewayVars, outcome>>

\* "await asyncio.sleep(wait_time)" inside "async with self._lock"
Sleep(t, g, kept, now) ==
    /\ requests' = [requests EXCEPT ![g] = kept]
    /\ lock_owner' = [lock_owner EXCEPT ![g] = t]
    /\ wake_at' = [wake_at EXCEPT ![t] = now + WaitTime(kept, now, time_window)]
    /\ pc' = [pc EXCEPT ![t] = "sleeping"]
    /\ gw' = [gw EXCEPT ![t] = g]
    /\ waiting' = [waiting EXCEPT ![g] = Append(Without(@, t), t)]
    /\ UNCHANGED <<admitted, acquired, scope, gatewayVars, outcome>>

\* "async with self._lock" finds the lock taken: the task queues on it
LockWait(t, g) ==
    /\ waiters' = [waiters EXCEPT ![g] = Append(@, t)]
    /\ pc' = [pc EXCEPT ![t] = "lock_wait"]
    /\ gw' = [gw EXCEPT ![t] = g]
    /\ waiting' = [waiting EXCEPT ![g] =
                     IF t \in Range(@) THEN @ ELSE Append(@, t)]
    /\ UNCHANGED <<requests, lock_owner, admitted, acquired, wake_at, scope,
                   gatewayVars, outcome>>

\* variant of WindowFull: one entry more is let in
WindowOverFull(kept) == Len(kept) > max_requests

\* len(self.requests) >= self.max_requests
WindowFull(kept) == Len(kept) >= max_requests

\* the body of acquire() from lock acquisition to its first suspension
\* (lines 27-40), run by a task that has just got the lock; min() of an
\* empty list raises ValueError
critical(t, g, caught) ==
    LET now  == clock
        kept == Prune(requests[g], now, time_window)
    IN  IF WindowFull(kept)
        THEN IF kept = <<>>
             THEN /\ requests' = [requests EXCEPT ![g] = kept]
                  /\ waiting' = [waiting EXCEPT ![g] = Without(@, t)]
                  /\ Raise(t, "ValueError", "none", {}, caught)
                  /\ UNCHANGED <<lock_owner, admitted, acquired, wake_at>>
             ELSE IF WaitTime(kept, now, time_window) > 0
                  THEN Sleep(t, g, kept, now)
                  ELSE Admit(t, g, kept, now)
        ELSE Admit(t, g, kept, now)

\* variant of MustQueue: a caller never waits for the lock
NeverQueue(g) == FALSE

\* asyncio.Lock.acquire suspends the caller when the lock is held or when
\* some task is queued for it
MustQueue(g) == lock_owner[g] # NoTask \/ waiters[g] # <<>>

\* acquire() called by t: "async with self._lock" takes the lock at once if
\* it is free and nobody queues for it, and suspends the task otherwise
acquire(t, g, caught) ==
    IF MustQueue(g)
    THEN LockWait(t, g)
    ELSE critical(t, g, caught) /\ UNCHANGED waiters

\* variant of NextWaiter: the lock goes to the task that queued last
LastWaiter(g) == waiters[g][Len(waiters[g])]

\* asyncio.Lock wakes the task that has queued longest
NextWaiter(g) == Head(waiters[g])

\* a task queued on the free lock gets it and runs the body of acquire()
Grant(t) ==
    /\ pc[t] = "lock_wait"
    /\ lock_owner[gw[t]] = NoTask
    /\ waiters[gw[t]] # <<>>
    /\ NextWaiter(gw[t]) = t
    /\ waiters' = [waiters EXCEPT ![gw[t]] = Without(@, t)]
    /\ \E caught \in BOOLEAN : critical(t, gw[t], caught)
    /\ UNCHANGED <<clock, configVars>>

\* ---- TarkovGraphQLClient.execute_query -----------------------------------

\* variant of ClientReady: the check is missing
ClientAlwaysReady(g) == TRUE

\* "if not self._client"
ClientReady(g) == client[g]

\* variant of LimiterOf: every client uses the limiter of client 1
SharedLimiter(g) == 1

\* __init__: self.rate_limiter = RateLimiter(...), one limiter per client
LimiterOf(g) == g

\* variant of ThroughLimiter: the network call starts without acquire()
SkipLimiter(t, g, caught) ==
    /\ pc' = [pc EXCEPT ![t] = "network"]
    /\ gw' = [gw EXCEPT ![t] = g]
    /\ UNCHANGED <<limiterVars, wake_at, scope, gatewayVars, outcome>>

\* "await self.rate_limiter.acquire()", the only statement between the
\* check of self._client and the try block that makes the network call
ThroughLimiter(t, g, caught) == acquire(t, LimiterOf(g), caught)

\* variant of RaiseBeforeLimiter: the check of self._client comes after
\* acquire() has recorded the call
RaiseAfterLimiter(g) ==
    /\ requests' = [requests EXCEPT ![g] = Append(@, clock)]
    /\ UNCHANGED <<lock_owner, waiters, admitted, acquired, waiting>>

\* "raise RuntimeError(...)" is above "await self.rate_limiter.acquire()"
RaiseBeforeLimiter(g) == UNCHANGED limiterVars

\* execute_query called by task t on gateway g, up to its first suspension
ExecuteQuery(t, g, caught) ==
    /\ pc[t] = "idle"
    /\ scope[t] \in {NoScope, g}
    /\ IF ~ClientReady(g)
       THEN /\ Raise(t, "NotInitialized", "none", {}, caught)
            /\ RaiseBeforeLimiter(g)
            /\ UNCHANGED wake_at
       ELSE ThroughLimiter(t, g, caught)
    /\ UNCHANGED <<clock, configVars>>

\* asyncio.sleep(wait_time) ends: "return await self.acquire()"
Wake(t) ==
    /\ pc[t] = "sleeping"
    /\ clock >= wake_at[t]
    /\ \E caught \in BOOLEAN : acquire(t, gw[t], caught)
    /\ UNCHANGED <<clock, configVars>>

\* variant of ReturnValue: "return result or None"
ReturnValueOrNone(result) == IF result = "empty" THEN "none" ELSE result

\* "return result"
ReturnValue(result) == result

\* execute_async returns resp
NetworkReturn(t, resp) ==
    /\ pc[t] = "network"
    /\ pc' = [pc EXCEPT ![t] = "idle"]
    /\ gw' = [gw EXCEPT ![t] = NoScope]
    /\ outcome' = [task |-> t, kind |-> "returned", val |-> ReturnValue(resp),
                   wire |-> resp, left |-> NoScope, diag |-> {},
                   reply |-> NoReply]
    /\ UNCHANGED <<clock, configVars, limiterVars, gatewayVars, scope, wake_at>>

\* variant of Reraise: the exception is logged and swallowed
Swallow(t, err, caught) ==
    /\ pc' = [pc EXCEPT ![t] = "idle"]
    /\ gw' = [gw EXCEPT ![t] = NoScope]
    /\ outcome' = [task |-> t, kind |-> "returned", val |-> "none",
                   wire |-> err, left |-> NoScope, diag |-> {},
                   reply |-> NoReply]
    /\ UNCHANGED <<scope, gatewayVars>>

\* logger.error(f"GraphQL query failed: {e}. Query variables: {variables}"):
\* the record names the exception and the variables of the call
LoggedFields == {"error", "variables"}

\* execute_async raises: "except Exception as e: logger.error(...); raise"
Reraise(t, err, caught) == Raise(t, err, err, LoggedFields, caught)

\* variant of NoRefund: a failed call gives its slot back
Refund(t) ==
    /\ requests' = [requests EXCEPT ![gw[t]] =
                      IF @ = <<>> THEN @ ELSE SubSeq(@, 1, Len(@) - 1)]
    /\ UNCHANGED <<lock_owner, waiters, admitted, acquired, waiting>>

\* lines 91-93 do not touch self.rate_limiter
NoRefund(t) == UNCHANGED limiterVars

NetworkFail(t, err, caught) ==
    /\ pc[t] = "network"
    /\ Reraise(t, err, caught)
    /\ NoRefund(t)
    /\ UNCHANGED <<clock, configVars, wake_at>>

\* variant of LockAfterCancel: the lock stays with the cancelled task
LockKeptAfterCancel(t, g) == lock_owner[g]

\* CancelledError leaves "async with self._lock": the lock is released if
\* the task holds it
LockAfterCancel(t, g) == IF lock_owner[g] = t THEN NoTask ELSE lock_owner[g]

\* task t is cancelled at the await it is suspended in: waiting for the
\* lock, in asyncio.sleep, or in execute_async.  CancelledError is not an
\* Exception: no "except Exception" clause handles it.
Cancel(t) ==
    /\ pc[t] \in {"lock_wait", "sleeping", "network"}
    /\ waiters' = [waiters EXCEPT ![gw[t]] = Without(@, t)]
    /\ waiting' = [waiting EXCEPT ![gw[t]] = Without(@, t)]
    /\ lock_owner' = [lock_owner EXCEPT ![gw[t]] = LockAfterCancel(t, gw[t])]
    /\ Raise(t, "CancelledError",
             IF pc[t] = "network" THEN "cancelled" ELSE "none", {}, FALSE)
    /\ wake_at' = [wake_at EXCEPT ![t] = 0]
    /\ UNCHANGED <<clock, configVars, requests, admitted, acquired>>

Next ==
    \/ Tick
    \/ \E t \in Tasks, g \in Gateways : AEnter(t, g)
    \/ \E t \in Tasks : AExit(t)
    \/ \E t \in Tasks, g \in Gateways, caught \in BOOLEAN : ExecuteQuery(t, g, caught)
    \/ \E t \in Tasks : Wake(t)
    \/ \E t \in Tasks, resp \in Responses : NetworkReturn(t, resp)
    \/ \E t \in Tasks, err \in Errors, caught \in BOOLEAN : NetworkFail(t, err, caught)
    \/ \E t \in Tasks : Grant(t)
    \/ \E t \in Tasks : Cancel(t)
    \/ \E t \in Tasks, g \in Gateways, name \in Names, item_type \in ItemTypes :
           HandleSearchItems(t, g, name, item_type)
    \/ \E t \in Tasks, g \in Gateways, n_ids \in 0..MaxIds :
           HandleCompareItems(t, g, n_ids)

Spec == Init /\ [][Next]_vars

\* A task that has called execute_query is eventually resumed: the clock
\* advances, a sleep that is due ends, a network call ends.  Nothing is
\* assumed about when tasks make calls.
Fairness ==
    /\ WF_vars(Tick)
    /\ \A t \in Tasks : WF_vars(Wake(t))
    /\ \A t \in Tasks : WF_vars(Grant(t))
    /\ \A t \in Tasks :
         WF_vars((\E resp \in Responses : NetworkReturn(t, resp))
                 \/ (\E err \in Errors, caught \in BOOLEAN : NetworkFail(t, err, caught)))

FairSpec == Init /\ [][Next]_vars /\ Fairness

\* One limiter configuration, every client object: the steps of Next, and the
\* same calls made on the additional client as well.
InitPair == Init /\ max_requests = 1 /\ time_window = 1

PairNext ==
    \/ Next
    \/ \E t \in Tasks, g \in AllGateways : AEnter(t, g)
    \/ \E t \in Tasks, g \in AllGateways, caught \in BOOLEAN : ExecuteQuery(t, g, caught)
    \/ \E t \in Tasks, g \in AllGateways, name \in Names, item_type \in ItemTypes :
           HandleSearchItems(t, g, name, item_type)
    \/ \E t \in Tasks, g \in AllGateways, n_ids \in 0..MaxIds :
           HandleCompareItems(t, g, n_ids)

PairSpec == InitPair /\ [][PairNext]_vars

\* ---- properties -----------------------------------------------------------

\* task t is inside acquire() of g's limiter
InAcquire(t, g) == gw[t] = g /\ pc[t] \in {"lock_wait", "sleeping"}

\* number of entries of a sequence of timestamps that satisfy P
Count(log, P(_)) == Cardinality({i \in DOMAIN log : P(log[i])})

\* s is a suffix of log
IsSuffix(s, log) ==
    /\ Len(s) <= Len(log)
    /\ \A i \in DOMAIN s : s[i] = log[Len(log) - Len(s) + i]

C2_EventualAdmission ==
    \A t \in Tasks, g \in Gateways :
        (InAcquire(t, g) /\ max_requests > 0 /\ clock + time_window <= MaxTime)
            ~> ~InAcquire(t, g)

\* admissions of g's limiter in the trailing window [clock - time_window, clock]
TrailingCount(g) ==
    Count(admitted[g], LAMBDA ts : clock - ts <= time_window)

\* C3: an acquire() made while fewer than max_requests admissions lie in
\* the trailing window returns in the same step, recording its admission:
\* it does not sleep and does not queue on the lock.
C3_NonBlockingUnderBudget ==
    [][\A t \in Tasks, g \in Gateways :
          ( /\ \E caught \in BOOLEAN : ExecuteQuery(t, g, caught)
            /\ ClientReady(g)
            /\ TrailingCount(g) < max_requests )
          => /\ pc'[t] = "network"
             /\ admitted'[g] = Append(admitted[g], clock)]_vars

\* C4 as stated: once no acquire() call is pending, history holds one
\* timestamp for each call that has completed.
C4_HistoryHoldsEveryAdmission ==
    \A g \in Gateways :
        (\A t \in Tasks : ~InAcquire(t, g)) => Len(requests[g]) = acquired[g]

\* C4 amended: one timestamp has been recorded for each completed
\* acquire(); history holds them in admission order, none twice, less
\* those pruned for being time_window old or older: it is a suffix of the
\* recorded admissions and contains every one younger than time_window.
C4_HistoryIsUnprunedAdmissions ==
    \A g \in Gateways :
        /\ Len(admitted[g]) = acquired[g]
        /\ IsSuffix(requests[g], admitted[g])
        /\ Len(requests[g]) >=
             Count(admitted[g], LAMBDA ts : clock - ts < time_window)

\* several calls have completed, none is pending, and an admission has been
\* pruned from history
C4_Witness ==
    \E g \in Gateways :
        /\ acquired[g] >= 2
        /\ \A t \in Tasks : ~InAcquire(t, g)
        /\ 0 < Len(requests[g])
        /\ Len(requests[g]) < acquired[g]

\* ---- gateway lifecycle ----------------------------------------------------

\* g is Open: some task is inside an "async with" block on g
Open(g) == \E t \in Tasks : scope[t] = g

\* the step is an execute_query call by t on g that fails with
\* NotInitialized and starts no network call and no acquire()
RejectedNotInitialized(t, g) ==
    /\ outcome' = [task |-> t, kind |-> "raised", val |-> "NotInitialized",
                   wire |-> "none", left |-> NoScope, diag |-> {},
                   reply |-> NoReply]
    /\ pc'[t] = "idle"
    /\ \A u \in Tasks : pc'[u] = "network" => pc[u] = "network"
    /\ UNCHANGED limiterVars

\* C5: execute_query on a gateway that has never been opened fails with
\* NotInitialized and performs no network call.
C5_NotInitializedBeforeOpen ==
    [][\A t \in Tasks, g \in Gateways :
          ( /\ \E caught \in BOOLEAN : ExecuteQuery(t, g, caught)
            /\ opens[g] = 0 )
          => RejectedNotInitialized(t, g)]_vars

\* a call has been rejected while no gateway had ever been opened
C5_Witness ==
    /\ outcome.kind = "raised"
    /\ outcome.val = "NotInitialized"
    /\ \A g \in Gateways : opens[g] = 0

\* C6: execute_query on a gateway whose block has been left (closed, and
\* not open again) fails with NotInitialized and performs no network call.
\* Stated for a limiter with max_requests > 0, so that a call that gets past
\* the check is seen to reach the limiter and the network.
C6_NotInitializedAfterClose ==
    [][\A t \in Tasks, g \in Gateways :
          ( /\ \E caught \in BOOLEAN : ExecuteQuery(t, g, caught)
            /\ closes[g] > 0
            /\ ~Open(g)
            /\ max_requests > 0 )
          => RejectedNotInitialized(t, g)]_vars

\* C7: _cleanup has run exactly once for every block that has been left,
\* however it was left, and not yet for the blocks tasks are still in: the
\* closes of a gateway and the blocks still open add up to its opens.
C7_CloseOncePerOpen ==
    \A g \in Gateways :
        opens[g] = closes[g] + Cardinality({t \in Tasks : scope[t] = g})

\* a failed network call has left a block, and every open of that gateway
\* has been closed
C7_Witness ==
    /\ outcome.kind = "raised"
    /\ outcome.wire \in Errors
    /\ outcome.left # NoScope
    /\ opens[outcome.left] >= 1
    /\ closes[outcome.left] = opens[outcome.left]

\* C8: the session handle is present exactly while the gateway is Open.
C8_SessionPresentIffOpen ==
    \A g \in Gateways : session[g] <=> Open(g)

\* C9: a successful execute_query returns what execute_async produced.
C9_PassThrough ==
    outcome.kind = "returned" => outcome.val = outcome.wire

\* a call has returned the empty response
C9_Witness ==
    /\ outcome.kind = "returned"
    /\ outcome.wire = "empty"

\* C10: a call whose execute_async failed ends by raising that failure, and
\* a call that returns a value had a successful execute_async.
C10_FailureIsRaised ==
    /\ outcome.wire \in Errors =>
           outcome.kind = "raised" /\ outcome.val = outcome.wire
    /\ outcome.kind = "returned" => outcome.wire \in Responses

\* a network call has failed
C10_Witness ==
    /\ outcome.wire \in Errors
    /\ outcome.kind = "raised"

\* ---- C11..C20 ---------------------------------------------------------------

\* C11: the record logged when execute_query fails holds both the attempted
\* query and the attempted parameters.
C11_DiagnosticHasQueryAndParameters ==
    outcome.wire \in Errors => {"query", "variables"} \subseteq outcome.diag
\* C12: __aenter__ is accepted only while the gateway is Closed, so a gateway
\* never goes from Open to Open.
C12_OpenOnlyWhenClosed ==
    [][\A g \in Gateways : opens'[g] > opens[g] => ~Open(g)]_vars

\* C13: a step that ends a network call, by returning or by raising, leaves
\* the limiter's history as it was: the slot of a failed call stays consumed
\* exactly like the slot of a successful one.
C13_FailedCallKeepsSlot ==
    [][\A t \in Tasks :
          (pc[t] = "network" /\ pc'[t] = "idle")
              => (requests' = requests /\ admitted' = admitted)]_vars

\* a call failed upstream and the one slot it consumed is still in the history
C13_Witness ==
    /\ outcome.kind = "raised"
    /\ outcome.wire \in Errors
    /\ \E g \in Gateways :
           /\ Len(admitted[g]) = 1
           /\ requests[g] = admitted[g]
           /\ \A h \in Gateways \ {g} : admitted[h] = <<>>

\* C14: with max_requests <= 0 a call to acquire() neither returns nor
\* raises: the caller stays suspended inside acquire().
C14_NonPositiveLimitBlocks ==
    [][\A t \in Tasks, g \in Gateways :
          (/\ max_requests <= 0
           /\ ClientReady(g)
           /\ \E caught \in BOOLEAN : ExecuteQuery(t, g, caught))
              => (pc'[t] \in {"lock_wait", "sleeping"} /\ outcome' = outcome)]_vars

\* C15: the lock is held only by a caller that is suspended inside acquire()
\* - a cancelled caller does not keep it - and the history holds only
\* timestamps of admitted calls.
C15_CancelLeavesLimiterUsable ==
    \A g \in Gateways :
        /\ lock_owner[g] # NoTask => InAcquire(lock_owner[g], g)
        /\ \A t \in Tasks : ~InAcquire(t, g) => t \notin Range(waiters[g])
        /\ Range(requests[g]) \subseteq Range(admitted[g])

\* a task whose last finished call was cancelled inside acquire() has called
\* again and has been admitted
C15_Witness ==
    \E t \in Tasks :
        /\ outcome.task = t
        /\ outcome.val = "CancelledError"
        /\ outcome.wire = "none"
        /\ pc[t] = "network"

\* C16: a suspended caller that is admitted is the one that has been
\* suspended longest among the callers suspended on the same limiter.
C16_WaitersAdmittedInOrder ==
    [][\A g \in Gateways, u \in Tasks :
          (InAcquire(u, g) /\ pc'[u] = "network") => Head(waiting[g]) = u]_vars

\* a queued caller has been given the lock and admitted while a caller that
\* queued after it is still queued
C16_Witness ==
    \E g \in Gateways, u \in Tasks :
        /\ pc[u] = "network"
        /\ gw[u] = g
        /\ lock_owner[g] = NoTask
        /\ waiters[g] # <<>>
        /\ u \notin Range(waiters[g])
        /\ Last(admitted[g]) = clock

\* C17: when execute_async fails inside a tool handler's block, the block is
\* left (its client is cleaned up), the handler does not raise, and it returns
\* exactly one text, which carries the error's message.
C17_HandlerTurnsFailureIntoOneText ==
    [][\A t \in Tasks, err \in Errors :
          (scope[t] # NoScope /\ NetworkFail(t, err, FALSE))
              => /\ scope'[t] = NoScope
                 /\ closes'[scope[t]] = closes[scope[t]] + 1
                 /\ outcome'.left = scope[t]
                 /\ outcome'.reply.raised = "none"
                 /\ Len(outcome'.reply.texts) = 1
                 /\ outcome'.reply.texts[1].type = "text"
                 /\ outcome'.reply.texts[1].message = err]_vars

\* a call failed upstream inside a handler's block, and the handler is out of
\* the block with its one-text reply
C17_Witness ==
    /\ outcome.wire \in Errors
    /\ outcome.left # NoScope
    /\ scope[outcome.task] = NoScope
    /\ closes[outcome.left] = opens[outcome.left]
    /\ Len(outcome.reply.texts) = 1

\* C18: a tool call rejected by argument validation returns one error text
\* and opens no client, consumes no slot and starts no upstream call.
C18_RejectionTouchesNothing ==
    [][(outcome' # outcome /\ outcome'.kind = "rejected")
          => /\ outcome'.reply.raised = "none"
             /\ Len(outcome'.reply.texts) = 1
             /\ outcome'.reply.texts[1].head = "Error"
             /\ UNCHANGED <<gatewayVars, limiterVars, pc, gw, scope>>]_vars

\* the last tool call was rejected and no
\* client has ever been opened, no slot consumed, no upstream call started
C18_Witness ==
    /\ outcome.kind = "rejected"
    /\ outcome.val \in {"search_items", "compare_items"}
    /\ \A g \in Gateways : opens[g] = 0 /\ admitted[g] = <<>>
    /\ \A t \in Tasks : pc[t] = "idle" /\ scope[t] = NoScope

\* C19: a caller that found the window full sleeps until oldest + window
\* and is admitted when that sleep ends, not before.
C19_AdmittedWhenComputedWaitEnds ==
    [][\A t \in Tasks :
          Wake(t) => (clock >= wake_at[t] /\ pc'[t] = "network")]_vars

\* C20: a caller that is in asyncio.sleep inside acquire() does not hold the
\* limiter's lock.
C20_SleeperDoesNotHoldLock ==
    \A t \in Tasks, g \in Gateways :
        (pc[t] = "sleeping" /\ gw[t] = g) => lock_owner[g] # t

\* ---- C21..C30 ----

\* C21: when its sleep ends, a caller gets the lock again and re-runs the
\* admission decision: the step ends with the caller admitted or asleep
\* again, and it is admitted only if fewer than max_requests entries are left
\* in the window after pruning.
C21_WokenCallerReevaluates ==
    [][\A t \in Tasks :
          Wake(t) =>
              /\ pc'[t] \in {"network", "sleeping"}
              /\ pc'[t] = "network" =>
                     Len(Prune(requests[gw[t]], clock, time_window)) < max_requests]_vars

\* C22: the decision-and-record step of acquire() is run by one caller at a
\* time: a step that prunes or appends to a limiter's history starts with
\* that limiter's lock free, and at most one caller is inside the lock's block.
C22_OneCallerInDecisionStep ==
    [][\A g \in Gateways :
          /\ requests'[g] # requests[g] => lock_owner[g] = NoTask
          /\ Cardinality({t \in Tasks : pc'[t] = "sleeping" /\ gw'[t] = g}) <= 1]_vars

\* one caller is inside the lock's block, and another, which called
\* meanwhile, is queued on the lock
C22_Witness ==
    \E g \in Gateways, t \in Tasks, u \in Tasks :
        /\ t # u
        /\ pc[t] = "sleeping"
        /\ lock_owner[g] = t
        /\ pc[u] = "lock_wait"
        /\ waiters[g] = <<u>>

\* C23: the history is in non-decreasing order, no entry is later than the
\* clock, and right after a step that prunes or appends every entry lies in
\* [now - time_window, now].
C23_HistoryWellFormed ==
    [][\A g \in Gateways :
          /\ \A i, j \in DOMAIN requests'[g] :
                 i < j => requests'[g][i] <= requests'[g][j]
          /\ \A i \in DOMAIN requests'[g] : requests'[g][i] <= clock'
          /\ requests'[g] # requests[g] =>
                 \A i \in DOMAIN requests'[g] :
                     clock - time_window <= requests'[g][i]]_vars

\* the history holds two entries of different instants after an older entry
\* has been pruned
C23_Witness ==
    \E g \in Gateways :
        /\ Len(requests[g]) >= 2
        /\ requests[g][1] < requests[g][2]
        /\ Len(admitted[g]) > Len(requests[g])

\* C24: a fresh caller that arrives while another caller is asleep for a slot
\* of the same limiter, and that finds fewer than max_requests entries in the
\* window, is admitted at once, ahead of the sleeping caller.
C24_FreshCallerOvertakesSleeper ==
    [][\A g \in Gateways, t \in Tasks, u \in Tasks :
          ( /\ u # t
            /\ pc[t] = "sleeping" /\ gw[t] = g
            /\ ClientReady(g)
            /\ Len(Prune(requests[g], clock, time_window)) < max_requests
            /\ \E caught \in BOOLEAN : ExecuteQuery(u, g, caught) )
          => (pc'[u] = "network" /\ pc'[t] = "sleeping")]_vars

\* C25: a task starts a network call only in a step in which the limiter of
\* the gateway it calls records exactly one admission, at the current time,
\* and no other limiter records anything; the gateway's client is set.
C25_NetworkCallFollowsOneAdmission ==
    [][\A t \in Tasks :
          (pc[t] # "network" /\ pc'[t] = "network") =>
              \E g \in Gateways :
                  /\ gw'[t] = g
                  /\ ClientReady(g)
                  /\ requests'[g] = Append(Prune(requests[g], clock, time_window), clock)
                  /\ acquired'[g] = acquired[g] + 1
                  /\ \A h \in Gateways \ {g} :
                         requests'[h] = requests[h] /\ acquired'[h] = acquired[h]]_vars

\* a task is in its network call and the last entry of the history of the
\* gateway it called is its admission
C25_Witness ==
    \E t \in Tasks, g \in Gateways :
        /\ pc[t] = "network"
        /\ gw[t] = g
        /\ client[g]
        /\ requests[g] # <<>>
        /\ Last(requests[g]) = clock
        /\ acquired[g] = 1

\* C26: with max_requests >= 1 the history of a limiter never holds more
\* than max_requests entries.
C26_HistoryWithinLimit ==
    \A g \in Gateways :
        max_requests >= 1 => Len(requests[g]) <= max_requests

\* the history is full with two entries and a further caller has been
\* refused a third
C26_Witness ==
    \E g \in Gateways, t \in Tasks :
        /\ max_requests = 2
        /\ Len(requests[g]) = max_requests
        /\ pc[t] = "sleeping"
        /\ gw[t] = g

\* C27: an execute_query on one client leaves the limiter of every other
\* client as it was, and whether it is admitted at once depends on its own
\* client's lock and history only.
C27_LimiterPerGateway ==
    [][\A t \in Tasks, g \in AllGateways :
          (ClientReady(g) /\ \E caught \in BOOLEAN : ExecuteQuery(t, g, caught))
          => /\ \A h \in AllGateways \ {g} :
                    /\ requests'[h] = requests[h]
                    /\ admitted'[h] = admitted[h]
                    /\ lock_owner'[h] = lock_owner[h]
                    /\ waiters'[h] = waiters[h]
             /\ ( /\ ~MustQueue(g)
                  /\ Len(Prune(requests[g], clock, time_window)) < max_requests )
                => (pc'[t] = "network" /\ gw'[t] = g)]_vars

\* with max_requests = 1, two clients, each opened once, have each admitted
\* a call at the same instant: two admissions inside one window
C27_Witness ==
    \E g \in AllGateways, h \in AllGateways :
        /\ g # h
        /\ max_requests = 1
        /\ opens[g] = 1 /\ opens[h] = 1
        /\ requests[g] = <<clock>>
        /\ requests[h] = <<clock>>

\* C28: an execute_query on a client whose _client is not set ends in the
\* same step without entering acquire(): no history, lock or queue changes
\* and the caller is not suspended.
C28_RejectionConsumesNoSlot ==
    [][\A t \in Tasks, g \in Gateways :
          (~client[g] /\ \E caught \in BOOLEAN : ExecuteQuery(t, g, caught))
          => /\ UNCHANGED <<requests, admitted, acquired, lock_owner, waiters>>
             /\ pc'[t] = "idle"
             /\ outcome'.val = "NotInitialized"]_vars

\* a task's call has been rejected and nothing has been recorded by any
\* limiter
C28_Witness ==
    \E t \in Tasks :
        /\ outcome.task = t
        /\ outcome.val = "NotInitialized"
        /\ pc[t] = "idle"
        /\ \A g \in Gateways : requests[g] = <<>> /\ acquired[g] = 0 /\ ~client[g]

C30_FailureKeepsGatewayOpen ==
    [][\A t \in Tasks :
          /\ \A err \in Errors :
                 (scope[t] # NoScope /\ NetworkFail(t, err, TRUE))
                     => (scope' = scope /\ UNCHANGED gatewayVars)
          /\ \A g \in Gateways :
                 ( /\ outcome.task = t
                   /\ outcome.wire \in Errors
                   /\ outcome.left = NoScope
                   /\ scope[t] = g
                   /\ \E caught \in BOOLEAN : ExecuteQuery(t, g, caught) )
                 => /\ ClientReady(g)
                    /\ outcome'.val # "NotInitialized"
                    /\ ( /\ ~MustQueue(g)
                         /\ Len(Prune(requests[g], clock, time_window)) < max_requests )
                       => pc'[t] = "network"]_vars

\* a task whose last finished call failed upstream is still in its block and
\* is in the network call of its next call
C30_Witness ==
    \E t \in Tasks, g \in Gateways :
        /\ outcome.task = t
        /\ outcome.wire \in Errors
        /\ outcome.left = NoScope
        /\ scope[t] = g
        /\ pc[t] = "network"
        /\ gw[t] = g
        /\ acquired[g] >= 2

=============================================================================
